---- MODULE Spec2Model ----
(***************************************************************************)
(* A model of the cerl client library (src/cerl/cerl.py, src/cerl/utils.py) *)
(*                                                                         *)
(*   SpecQuery   ample_query_hits / ample_query_generator / ample_query    *)
(*   SpecExport  ample_record_export / ample_record                        *)
(*   SpecResolve by_dot / _jump_list                                       *)
(*   SpecType    cid / ct_record_type (with the, by_dot)                   *)
(*                                                                         *)
(* Python strings are sequences of one-character strings, so that quote(), *)
(* split('.') and the slice [:3] are computed and not assumed.             *)
(***************************************************************************)
EXTENDS Integers, Sequences, FiniteSets, TLC

VARIABLES
    \* ---- ample_query_generator / ample_query ----
    mode,          \* who drives the generator: "query" (ample_query) or "iterate" (a direct caller)
    host,          \* the host argument
    query,         \* the query argument
    gen,           \* generator object: "created", "suspended", "finished"
    hitsResponse,  \* JSON body of the hit-count response
    hits,          \* local variable hits of the generator
    offset,        \* local variable offset of the generator
    requests,      \* every http.get issued, in order
    responses,     \* JSON bodies of the page responses, in order
    yieldedHits,   \* the hit count yielded first (a sequence of length 0 or 1)
    yielded,       \* the row lists yielded by the generator, in order
    outcome,       \* "running", "returned" (a QueryResult), "exhausted", "raised"
    result,        \* the QueryResult returned by ample_query
    extraNexts,    \* next() calls made on the finished generator
    \* ---- ample_record_export / ample_record ----
    xcall,         \* the pending call, a record [op, host, idx, export]
    xrequests,     \* every http.get issued by the record functions
    xoutcome,      \* "pending", "returned", "raised"
    xresult,       \* what the call returned: "none", "text" (r.text), "json" (r.json())
    \* ---- by_dot ----
    record,        \* the record argument
    path,          \* the path argument (a string)
    steps,         \* path.split('.')
    stepIdx,       \* index of the step the outer loop is at
    current,       \* local variable current
    status,        \* "called", "running", "done", "TypeError"
    \* ---- cid / ct_record_type ----
    trecord,       \* the record argument
    tcall,         \* "cid" or "ct_record_type"
    tresult        \* [state, err, value, type]

qvars == <<mode, host, query, gen, hitsResponse, hits, offset, requests,
           responses, yieldedHits, yielded, outcome, result, extraNexts>>
xvars == <<xcall, xrequests, xoutcome, xresult>>
rvars == <<record, path, steps, stepIdx, current, status>>
tvars == <<trecord, tcall, tresult>>
vars == <<qvars, xvars, rvars, tvars>>

---------------------------------------------------------------------------
(* Bounds of the model *)

\* page responses that may deviate from what a well-behaved upstream returns
MaxVaried == 2
\* next() calls a direct caller makes on a finished generator
MaxExtraNexts == 1
\* length of the sequences inside records
MaxLen == 2

---------------------------------------------------------------------------
(* Python strings *)

Min(a, b) == IF a < b THEN a ELSE b

RECURSIVE Concat(_)
\* the concatenation of a sequence of sequences, left to right
Concat(ss) == IF ss = <<>> THEN <<>> ELSE Head(ss) \o Concat(Tail(ss))

\* characters urllib.parse.quote leaves alone: letters, digits, "_.-~" and "/"
SafeChars == {"a", "b", "c", "d", "i", "l", "n", "p", "x", "0", "1", "2", "3",
              "_", ".", "-", "~", "/"}

\* the percent-encoding of one character (UTF-8, upper-case hex)
PercentEncoded(c) ==
    CASE c = " " -> <<"%", "2", "0">>
      [] c = ":" -> <<"%", "3", "A">>
      [] c = "?" -> <<"%", "3", "F">>
      [] c = "&" -> <<"%", "2", "6">>

\* urllib.parse.quote(s)
Quote(s) == Concat([i \in 1..Len(s) |->
                      IF s[i] \in SafeChars THEN <<s[i]>> ELSE PercentEncoded(s[i])])

CT       == "data.cerl.org/thesaurus"
ISTC     == "data.cerl.org/istc"
HOLDINST == "data.cerl.org/holdinst"
MEI      == "data.cerl.org/mei"

---------------------------------------------------------------------------
(* ample_query_hits, ample_query_generator, ample_query *)

\* rows asked for per page, and the stride of the offset
PageSize == 100
\* the result window of the search engine
ResultWindow == 10000

\* the URL of the hit-count request
HitsRequest(h, q) ==
    [host |-> h, path |-> "_search", query |-> Quote(q), size |-> 1,
     hasFrom |-> FALSE, from |-> 0, format |-> "json"]

\* the requests ample_query_hits issues
HitsRequests(h, q) == <<HitsRequest(h, q)>>

\* the URL of the page request at offset off
PageRequest(h, q, off) ==
    [host |-> h, path |-> "_search", query |-> Quote(q), size |-> PageSize,
     hasFrom |-> TRUE, from |-> off, format |-> "json"]

\* ample_query_hits with hits.get('value', 1)
HitsOfDefaultOne(j) ==
    IF j.isdict THEN (IF j.hasValue THEN j.value ELSE 1) ELSE j.value

\* j['hits'], unwrapped when it is a dict: hits.get('value', 0)
HitsOf(j) ==
    IF j.isdict THEN (IF j.hasValue THEN j.value ELSE 0) ELSE j.value

\* r.json().get('rows', [])
RowsOf(j) == IF j.hasRows THEN j.rows ELSE <<>>

\* the loop with offset <= hits
ContinuePagingInclusive(off, h) == off <= h /\ off < ResultWindow

\* the loop entered once before its condition is tested
ContinuePagingDoWhile(off, h) == off = 0 \/ (off < h /\ off < ResultWindow)

\* the condition of the while loop
ContinuePaging(off, h) == off < h /\ off < ResultWindow

\* truth value of an int
TruthyInt(n) == n # 0

RECURSIVE ConcatReversed(_)
ConcatReversed(ss) == IF ss = <<>> THEN <<>> ELSE ConcatReversed(Tail(ss)) \o Head(ss)

\* the pages summed last page first
SumPagesReversed(pages) == ConcatReversed(pages)

\* sum(list(generator), []): [] + page1 + page2 + ...
SumPages(pages) == Concat(pages)

\* ample_query's rows, from the hit count and the pages the generator yields
QueryRows(h, pages) == IF TruthyInt(h) THEN SumPages(pages) ELSE <<>>

\* a generator that stays resumable after its frame raised
GenAfterRaiseResumable == "suspended"

\* state of a generator whose frame raised: it is finished
GenAfterRaise == "finished"

\* ---- the upstream ----

\* hit counts the upstream reports as a bare integer / in a value sub-field
BareCounts == {0, 1, 100, 101, 250, 10000}
ValueCounts == {0, 150, 12000}

HitsBodies ==
    {[isdict |-> FALSE, hasValue |-> FALSE, value |-> n] : n \in BareCounts}
    \cup {[isdict |-> TRUE, hasValue |-> TRUE, value |-> n] : n \in ValueCounts}
    \cup {[isdict |-> TRUE, hasValue |-> FALSE, value |-> 0]}

\* n rows, identified by their position in the upstream's result list
RowsFrom(off, n) == [i \in 1..n |-> off + i]

\* what an upstream that honours size and from returns at offset off of h hits
RegularCount(off, h) == Min(PageSize, h - off)

\* the page bodies the upstream may answer with; the first MaxVaried answers
\* may lack the rows field, be empty, be one row short or carry one row more
PageBodies(off, h, nth) ==
    LET n == RegularCount(off, h)
        regular == {[hasRows |-> TRUE, rows |-> RowsFrom(off, n)]}
        varied == {[hasRows |-> FALSE, rows |-> <<>>],
                   [hasRows |-> TRUE, rows |-> <<>>],
                   [hasRows |-> TRUE, rows |-> RowsFrom(off, n - 1)],
                   [hasRows |-> TRUE, rows |-> RowsFrom(off, n + 1)]}
    IN  IF nth <= MaxVaried THEN regular \cup varied ELSE regular

Queries == {<<"a", " ", "b">>}
QueryHosts == {CT}

NoHitsBody == [isdict |-> FALSE, hasValue |-> FALSE, value |-> 0]
NoResult == [hits |-> 0, rows |-> <<>>]

QueryIdle ==
    /\ mode = "idle" /\ host = "" /\ query = <<>> /\ gen = "idle"
    /\ hitsResponse = NoHitsBody /\ hits = 0 /\ offset = 0
    /\ requests = <<>> /\ responses = <<>> /\ yieldedHits = <<>> /\ yielded = <<>>
    /\ outcome = "idle" /\ result = NoResult /\ extraNexts = 0

QueryInit ==
    /\ mode \in {"query", "iterate"}
    /\ host \in QueryHosts
    /\ query \in Queries
    /\ gen = "created"
    /\ hitsResponse = NoHitsBody
    /\ hits = 0
    /\ offset = 0
    /\ requests = <<>>
    /\ responses = <<>>
    /\ yieldedHits = <<>>
    /\ yielded = <<>>
    /\ outcome = "running"
    /\ result = NoResult
    /\ extraNexts = 0

\* the first next(generator): lines 96-97, and in ample_query lines 123-128
\* when the hit count is falsy
GenStart ==
    /\ gen = "created"
    /\ requests' = requests \o HitsRequests(host, query)
    /\ \/ \* http.get raises
          /\ gen' = GenAfterRaise
          /\ outcome' = "raised"
          /\ UNCHANGED <<hitsResponse, hits, yieldedHits, result>>
       \/ \E j \in HitsBodies :
          /\ hitsResponse' = j
          /\ hits' = HitsOf(j)
          /\ yieldedHits' = <<HitsOf(j)>>
          /\ gen' = "suspended"
          /\ IF mode = "query" /\ ~TruthyInt(HitsOf(j))
             THEN /\ result' = [hits |-> HitsOf(j), rows |-> QueryRows(HitsOf(j), <<>>)]
                  /\ outcome' = "returned"
             ELSE UNCHANGED <<result, outcome>>
    /\ UNCHANGED <<mode, host, query, offset, responses, yielded, extraNexts>>
    /\ UNCHANGED <<xvars, rvars, tvars>>

\* a later next(generator) that enters the loop body: lines 101-105
GenPage ==
    /\ gen = "suspended"
    /\ mode = "query" => outcome = "running"
    /\ ContinuePaging(offset, hits)
    /\ requests' = Append(requests, PageRequest(host, query, offset))
    /\ \/ \* http.get raises
          /\ gen' = GenAfterRaise
          /\ outcome' = "raised"
          /\ UNCHANGED <<offset, responses, yielded>>
       \/ \E j \in PageBodies(offset, hits, Len(responses) + 1) :
          /\ responses' = Append(responses, j)
          /\ offset' = offset + PageSize
          /\ yielded' = Append(yielded, RowsOf(j))
          /\ UNCHANGED <<gen, outcome>>
    /\ UNCHANGED <<mode, host, query, hitsResponse, hits, yieldedHits, result, extraNexts>>
    /\ UNCHANGED <<xvars, rvars, tvars>>

\* a later next(generator) that leaves the loop: line 101, and in ample_query
\* lines 125-128
GenExhaust ==
    /\ gen = "suspended"
    /\ mode = "query" => outcome = "running"
    /\ ~ContinuePaging(offset, hits)
    /\ gen' = "finished"
    /\ IF mode = "query"
       THEN /\ result' = [hits |-> hits, rows |-> QueryRows(hits, yielded)]
            /\ outcome' = "returned"
       ELSE /\ outcome' = "exhausted"
            /\ UNCHANGED result
    /\ UNCHANGED <<mode, host, query, hitsResponse, hits, offset, requests,
                   responses, yieldedHits, yielded, extraNexts>>
    /\ UNCHANGED <<xvars, rvars, tvars>>

\* next() on a finished generator raises StopIteration and runs no code
NextOnFinished ==
    /\ mode = "iterate"
    /\ gen = "finished"
    /\ extraNexts < MaxExtraNexts
    /\ extraNexts' = extraNexts + 1
    /\ UNCHANGED <<mode, host, query, gen, hitsResponse, hits, offset, requests,
                   responses, yieldedHits, yielded, outcome, result>>
    /\ UNCHANGED <<xvars, rvars, tvars>>

QueryNext == GenStart \/ GenPage \/ GenExhaust \/ NextOnFinished

---------------------------------------------------------------------------
(* Claims about the pager and the aggregator (SpecQuery) *)

\* the generator ran to its end, or ample_query returned
Completed == outcome \in {"returned", "exhausted"}

\* C1: the page requests are those with from = 0, 100, 200, ... in increasing
\* order, one for every multiple of 100 below both the hit count and 10000:
\* request i+1 has from = 100*(i-1) whatever the earlier pages carried, no
\* request has from >= 10000 or from >= hit count, and a run that completes
\* has issued all of them.
C1_FixedStridePages ==
    /\ \A i \in 2..Len(requests) :
          /\ requests[i].hasFrom
          /\ requests[i].size = 100
          /\ requests[i].from = 100 * (i - 2)
          /\ requests[i].from < hits
          /\ requests[i].from < 10000
    /\ Completed =>
          Len(requests) - 1 =
             Cardinality({k \in 0..100 : 100 * k < hits /\ 100 * k < 10000})

\* hit count 12000: the last request is from=9900, after a first page that
\* did not carry 100 rows
C1_Witness ==
    /\ outcome = "returned"
    /\ hits = 12000
    /\ requests[Len(requests)].from = 9900
    /\ Len(yielded[1]) # 100

\* C2: every QueryResult returned by query has rows.length <= min(hitCount,
\* 10000), whatever the page responses carry.
C2_RowsWithinHitCount ==
    outcome = "returned" => Len(result.rows) <= Min(result.hits, 10000)

\* the upstream answered the hit-count request with 0, bare or in value
ReportedZero ==
    /\ yieldedHits # <<>>
    /\ hitsResponse.value = 0
    /\ hitsResponse.isdict => hitsResponse.hasValue

\* C3: when the hit-count request reports 0 (in either shape), query returns
\* QueryResult(0, []) and the only request issued is the hit-count request.
C3_ZeroHitsNoPages ==
    ReportedZero =>
       /\ Len(requests) = 1
       /\ requests[1].size = 1
       /\ ~requests[1].hasFrom
       /\ mode = "query" => outcome = "returned" /\ result = [hits |-> 0, rows |-> <<>>]

C3_Witness ==
    /\ ReportedZero
    /\ hitsResponse.isdict
    /\ mode = "query"
    /\ outcome = "returned"
    /\ Len(requests) = 1

RECURSIVE RowsInRequestOrder(_)
\* the rows of the page responses, first request first; a response without a
\* rows field counts as empty
RowsInRequestOrder(rs) ==
    IF rs = <<>> THEN <<>>
    ELSE RowsInRequestOrder(SubSeq(rs, 1, Len(rs) - 1))
            \o (IF rs[Len(rs)].hasRows THEN rs[Len(rs)].rows ELSE <<>>)

\* C4: for a non-zero hit count the rows of the QueryResult are the
\* concatenation, in request order, of the rows of all page responses, a
\* response without a rows field contributing nothing; hits is the hit count.
C4_RowsAreConcatenation ==
    (outcome = "returned" /\ result.hits # 0) =>
       /\ result.hits = hits
       /\ Len(responses) = Len(requests) - 1
       /\ result.rows = RowsInRequestOrder(responses)

\* hit count 250 with pages of 100, 100 and 50 rows: 250 rows in page order
C4_Witness ==
    /\ outcome = "returned"
    /\ result.hits = 250
    /\ Len(responses) = 3
    /\ Len(responses[1].rows) = 100
    /\ Len(responses[2].rows) = 100
    /\ Len(responses[3].rows) = 50
    /\ result.rows = [i \in 1..250 |-> i]

\* three pages, the second response without a rows field
C4_WitnessNoRows ==
    /\ outcome = "returned"
    /\ Len(responses) = 3
    /\ ~responses[2].hasRows
    /\ Len(result.rows) = 150

\* C9: once a request of a query has failed, the failure is the outcome: no
\* further request is issued, no QueryResult is returned, the generator is
\* finished and yields nothing more, and what it yielded before is unchanged.
C9_FailureAborts ==
    [][/\ outcome' = "raised" =>
             /\ gen' = "finished"
             /\ result' = NoResult
             /\ Len(responses') < Len(requests')
       /\ outcome = "raised" =>
             /\ outcome' = "raised"
             /\ requests' = requests
             /\ responses' = responses
             /\ yieldedHits' = yieldedHits
             /\ yielded' = yielded
             /\ result' = result]_vars

\* a page request failed after two pages, and the caller called next() again
C9_Witness ==
    /\ outcome = "raised"
    /\ mode = "iterate"
    /\ Len(yielded) = 2
    /\ Len(requests) = 4
    /\ extraNexts >= 1

\* the hit count the response body states
StatedHitCount(j) ==
    CASE ~j.isdict -> j.value
      [] j.isdict /\ j.hasValue -> j.value
      [] j.isdict /\ ~j.hasValue -> 0

\* C10: the hit count yielded first, and stored as hits of the QueryResult,
\* is the bare integer, the value sub-field, or 0 for an object without value;
\* it comes from exactly one size=1 request, issued before any page request.
C10_HitCountShapes ==
    /\ yieldedHits # <<>> => yieldedHits[1] = StatedHitCount(hitsResponse)
    /\ outcome = "returned" =>
          yieldedHits # <<>> /\ result.hits = StatedHitCount(hitsResponse)
    /\ requests # <<>> =>
          /\ requests[1].size = 1
          /\ \A i \in 2..Len(requests) : requests[i].size # 1
    /\ Len(requests) >= 2 => yieldedHits # <<>>

\* an object without value: hit count 0, one request
C10_Witness ==
    /\ outcome = "returned"
    /\ hitsResponse.isdict
    /\ ~hitsResponse.hasValue
    /\ result.hits = 0
    /\ Len(requests) = 1

\* an object with value 12000, after the pages
C10_WitnessValue ==
    /\ outcome = "returned"
    /\ hitsResponse.isdict
    /\ hitsResponse.hasValue
    /\ result.hits = 12000
    /\ Len(requests) = 101

---------------------------------------------------------------------------
(* ample_record_export, ample_record, _ample_record_request *)

\* a Python value that is None or a str
PyNone == [isNone |-> TRUE, s |-> ""]
PyStr(x) == [isNone |-> FALSE, s |-> x]

\* the text an f-string puts for a value: str(None) is "None"
Format(v) == IF v.isNone THEN "None" ELSE v.s

\* the dict of ample_record_export, with its default
ExportTable(export) ==
    CASE export = "rdf/ttl"    -> [form |-> "txt", style |-> PyStr("ttl")]
      [] export = "yaml"       -> [form |-> "txt", style |-> PyNone]
      [] export = "rdf/xml"    -> [form |-> "rdfxml", style |-> PyNone]
      [] export = "rdf/jsonld" -> [form |-> "json", style |-> PyStr("jsonld")]
      [] export = "unimarc"    -> [form |-> "txt", style |-> PyStr("internal")]
      [] OTHER                 -> [form |-> "json", style |-> PyNone]

\* the URL of _ample_record_request: its path and its query parameters in order
RecordRequest(h, idx, form, style) ==
    [host |-> h, path |-> Quote(idx),
     params |-> << <<"format", form>>, <<"style", Format(style)>> >>]

Hosts == {CT, ISTC, HOLDINST, MEI}
RecordIds == {<<"i", "d", "1">>, <<"c", "n", "p", "0", "0", "1", "2", "3">>, <<"a", " ", "b">>}
Exports == {"rdf/ttl", "yaml", "rdf/xml", "rdf/jsonld", "unimarc", "json", "bogus", ""}

ExportIdle ==
    /\ xcall = [op |-> "idle", host |-> "", idx |-> <<>>, export |-> ""]
    /\ xrequests = <<>> /\ xoutcome = "idle" /\ xresult = "none"

ExportInit ==
    /\ xcall \in [op : {"ample_record_export"}, host : Hosts, idx : RecordIds, export : Exports]
                 \cup [op : {"ample_record"}, host : Hosts, idx : RecordIds, export : {""}]
    /\ xrequests = <<>>
    /\ xoutcome = "pending"
    /\ xresult = "none"

\* ample_record_export(host, idx, export)
AmpleRecordExport ==
    /\ xcall.op = "ample_record_export"
    /\ xoutcome = "pending"
    /\ LET e == ExportTable(xcall.export)
       IN  xrequests' = Append(xrequests, RecordRequest(xcall.host, xcall.idx, e.form, e.style))
    /\ \/ xoutcome' = "raised" /\ xresult' = "none"
       \/ xoutcome' = "returned" /\ xresult' = "text"
    /\ UNCHANGED <<xcall, qvars, rvars, tvars>>

\* ample_record(host, idx)
AmpleRecord ==
    /\ xcall.op = "ample_record"
    /\ xoutcome = "pending"
    /\ xrequests' = Append(xrequests, RecordRequest(xcall.host, xcall.idx, "json", PyNone))
    /\ \/ xoutcome' = "raised" /\ xresult' = "none"
       \/ xoutcome' = "returned" /\ xresult' = "json"
    /\ UNCHANGED <<xcall, qvars, rvars, tvars>>

ExportNext == AmpleRecordExport \/ AmpleRecord

---------------------------------------------------------------------------
(* Claims about the record fetcher (SpecExport) *)

\* the export-format table: representation, and styleVariant or "" for none
TableRepresentation(sel) ==
    CASE sel \in {"rdf/ttl", "yaml", "unimarc"} -> "txt"
      [] sel = "rdf/xml" -> "rdfxml"
      [] OTHER -> "json"

TableStyleVariant(sel) ==
    CASE sel = "rdf/ttl" -> "ttl"
      [] sel = "rdf/jsonld" -> "jsonld"
      [] sel = "unimarc" -> "internal"
      [] OTHER -> ""

\* the values a request carries for the parameter called name
ParamValues(req, name) ==
    {req.params[i][2] : i \in {k \in 1..Len(req.params) : req.params[k][1] = name}}

\* C5: fetchRecordExport issues exactly one GET whose format parameter is the
\* table's representation and whose style parameter is the table's
\* styleVariant (unknown selectors map to json, none); when the styleVariant
\* is none the request carries no style parameter at all.
C5_ExportParameters ==
    (xcall.op = "ample_record_export" /\ xoutcome # "pending") =>
       /\ Len(xrequests) = 1
       /\ ParamValues(xrequests[1], "format") = {TableRepresentation(xcall.export)}
       /\ ParamValues(xrequests[1], "style") =
             IF TableStyleVariant(xcall.export) = "" THEN {}
             ELSE {TableStyleVariant(xcall.export)}

---------------------------------------------------------------------------
(* Records: nested structures of scalars, dicts and lists *)

\* A node is [t, s, kids]: t is "str", "int", "null", "dict" or "list"; s is the
\* text of a scalar; kids holds <<key, value>> pairs (the key of a list item
\* is the empty string).
Str(chars) == [t |-> "str", s |-> chars, kids |-> <<>>]
IntNode(digits) == [t |-> "int", s |-> digits, kids |-> <<>>]
Null == [t |-> "null", s |-> <<>>, kids |-> <<>>]
Dict(pairs) == [t |-> "dict", s |-> <<>>, kids |-> pairs]
List(items) == [t |-> "list", s |-> <<>>, kids |-> [i \in 1..Len(items) |-> << <<>>, items[i] >>]]

Items(n) == [i \in 1..Len(n.kids) |-> n.kids[i][2]]

\* truth value of a value that is not None
TruthyNotNone(n) == n.t # "null"

\* truth value of a Python value
Truthy(n) ==
    CASE n.t = "null" -> FALSE
      [] n.t = "str"  -> n.s # <<>>
      [] n.t = "int"  -> n.s # <<"0">>
      [] OTHER        -> n.kids # <<>>

\* target.get(key, None)
DictGet(target, key) ==
    IF \E i \in 1..Len(target.kids) : target.kids[i][1] = key
    THEN target.kids[CHOOSE i \in 1..Len(target.kids) : target.kids[i][1] = key][2]
    ELSE Null

RECURSIVE JumpList(_, _), JumpItems(_, _, _)

\* _jump_list(target, key): [kind, vals] with kind "list" (vals returned),
\* "none" (no return statement reached) or "TypeError" (raised)
JumpList(target, key) ==
    IF target.t = "dict"
    THEN LET value == DictGet(target, key)
         IN  [kind |-> "list", vals |-> IF Truthy(value) THEN <<value>> ELSE <<>>]
    ELSE IF target.t = "list"
    THEN JumpItems(Items(target), key, <<>>)
    ELSE [kind |-> "none", vals |-> <<>>]

\* the for loop of _jump_list over the items left, values being the list so far
JumpItems(items, key, values) ==
    IF items = <<>> THEN [kind |-> "list", vals |-> values]
    ELSE LET value == JumpList(Head(items), key)
         IN  IF value.kind = "list"
             THEN JumpItems(Tail(items), key, values \o value.vals)
             ELSE \* values.extend(None), or the item's own TypeError
                  [kind |-> "TypeError", vals |-> <<>>]

RECURSIVE StepBranches(_, _, _)
\* the inner for loop of by_dot over the branches left
StepBranches(cur, step, branches) ==
    IF cur = <<>> THEN [kind |-> "list", vals |-> branches]
    ELSE LET value == JumpList(Head(cur), step)
         IN  IF value.kind = "TypeError" THEN value
             ELSE StepBranches(Tail(cur), step,
                               IF value.kind = "list" /\ value.vals # <<>>
                               THEN branches \o value.vals ELSE branches)

\* the index of the first "." of s, or 0
FirstDot(s) ==
    IF \E i \in 1..Len(s) : s[i] = "."
    THEN CHOOSE i \in 1..Len(s) : s[i] = "." /\ \A k \in 1..(i - 1) : s[k] # "."
    ELSE 0

RECURSIVE SplitDot(_)
\* s.split('.')
SplitDot(s) ==
    IF FirstDot(s) = 0 THEN <<s>>
    ELSE <<SubSeq(s, 1, FirstDot(s) - 1)>> \o SplitDot(SubSeq(s, FirstDot(s) + 1, Len(s)))

RECURSIVE ByDotFrom(_, _)
\* the outer for loop of by_dot over the steps left
ByDotFrom(cur, stepsLeft) ==
    IF stepsLeft = <<>> THEN [kind |-> "list", vals |-> cur]
    ELSE LET b == StepBranches(cur, Head(stepsLeft), <<>>)
         IN  IF b.kind = "TypeError" THEN b ELSE ByDotFrom(b.vals, Tail(stepsLeft))

\* by_dot(record, path)
ByDot(rec, p) == ByDotFrom(<<rec>>, SplitDot(p))

\* ---- the records and paths resolved ----

KeyA == <<"a">>
KeyB == <<"b">>
StrX == Str(<<"x">>)
StrY == Str(<<"y">>)
StrEmpty == Str(<<>>)
Zero == IntNode(<<"0">>)
EmptyDict == Dict(<<>>)
EmptyList == List(<<>>)

Leaves == {StrX, StrY, StrEmpty, Zero, Null, EmptyDict, EmptyList}

\* dicts of leaves
LeafDicts ==
    {Dict(<< <<KeyA, v>> >>) : v \in Leaves}
    \cup {Dict(<< <<KeyB, StrX>> >>), Dict(<< <<KeyA, StrX>>, <<KeyB, StrY>> >>)}

\* sequences of 1..n members of S
SeqsUpTo(S, n) == UNION {[1..k -> S] : k \in 1..n}

\* lists of leaves and dicts of leaves
LeafLists == {List(l) : l \in SeqsUpTo(Leaves \cup LeafDicts, MaxLen)}

\* dicts whose value at a is a leaf, a dict or a list; lists holding one list
Records ==
    Leaves \cup LeafDicts \cup LeafLists
    \cup {Dict(<< <<KeyA, v>> >>) : v \in LeafDicts \cup LeafLists}
    \cup {List(<<l>>) : l \in LeafLists}

PathStrings == {<<"a">>, <<"b">>, <<>>, <<"a", ".", "a">>, <<"a", ".", "b">>,
                <<"a", ".">>, <<"a", ".", "a", ".", "b">>}

ResolveIdle ==
    /\ record = Null /\ path = <<>> /\ steps = <<>> /\ stepIdx = 0
    /\ current = <<>> /\ status = "idle"

ResolveInit ==
    /\ record \in Records
    /\ path \in PathStrings
    /\ steps = <<>>
    /\ stepIdx = 0
    /\ current = <<>>
    /\ status = "called"

\* by_dot up to its outer loop: line 54 and the split of line 55
ByDotEnter ==
    /\ status = "called"
    /\ current' = <<record>>
    /\ steps' = SplitDot(path)
    /\ stepIdx' = 1
    /\ status' = "running"
    /\ UNCHANGED <<record, path, qvars, xvars, tvars>>

\* one pass of the outer loop, lines 56-60, and the return of line 61 after
\* the last step
ByDotStep ==
    /\ status = "running"
    /\ LET b == StepBranches(current, steps[stepIdx], <<>>)
       IN  IF b.kind = "TypeError"
           THEN /\ status' = "TypeError"
                /\ UNCHANGED <<current, stepIdx>>
           ELSE /\ current' = b.vals
                /\ stepIdx' = stepIdx + 1
                /\ status' = IF stepIdx = Len(steps) THEN "done" ELSE "running"
    /\ UNCHANGED <<record, path, steps, qvars, xvars, tvars>>

ResolveNext == ByDotEnter \/ ByDotStep

---------------------------------------------------------------------------
(* Claims about the path resolver (SpecResolve) *)

\* C6: for every record built from scalars, mappings and sequences and every
\* path, resolve returns a sequence without signalling an error.
C6_ResolveNeverFails == status # "TypeError"

\* the falsy values: empty string, zero, empty container, null
Falsy == {StrEmpty, Zero, EmptyDict, EmptyList, Null}

\* the single-step result on a mapping
OnMapping(m, K) ==
    LET at == {i \in 1..Len(m.kids) : m.kids[i][1] = K}
    IN  IF at = {} THEN <<>>
        ELSE LET value == m.kids[CHOOSE i \in at : TRUE][2]
             IN  IF value \in Falsy THEN <<>> ELSE <<value>>

IsMapping(n) == n.t = "dict"
IsSequenceOfMappings(n) == n.t = "list" /\ \A i \in 1..Len(n.kids) : IsMapping(n.kids[i][2])

\* C7: for a single-step path [K], resolve on a mapping returns [value] when
\* K is present with a truthy value and [] otherwise; on a sequence of
\* mappings it returns the concatenation of each element's single-step
\* result, in sequence order.
C7_SingleStep ==
    (status \notin {"called", "running"} /\ Len(steps) = 1) =>
       /\ IsMapping(record) =>
             status = "done" /\ current = OnMapping(record, steps[1])
       /\ IsSequenceOfMappings(record) =>
             /\ status = "done"
             /\ current = Concat([i \in 1..Len(record.kids) |->
                                    OnMapping(record.kids[i][2], steps[1])])

\* a sequence of a mapping with a falsy a and a mapping with a truthy a
C7_Witness ==
    /\ status = "done"
    /\ steps = <<KeyA>>
    /\ record = List(<<Dict(<< <<KeyA, Zero>> >>), Dict(<< <<KeyA, StrY>> >>)>>)
    /\ current = <<StrY>>

---------------------------------------------------------------------------
(* the, cid, ct_record_type *)

\* the(l): [err, value] with err "none" or "ValueError"
The(l) ==
    IF Len(l) = 0 THEN [err |-> "ValueError", value |-> Null]
    ELSE IF Len(l) # 1 THEN [err |-> "ValueError", value |-> Null]
    ELSE [err |-> "none", value |-> l[1]]

IdPath == <<"_", "i", "d">>

\* cid(record): [err, value]; the TypeError of by_dot passes through
Cid(rec) ==
    LET found == ByDot(rec, IdPath)
    IN  IF found.kind = "TypeError" THEN [err |-> "TypeError", value |-> Null]
        ELSE LET one == The(found.vals)
             IN  IF one.err # "none" THEN one
                 ELSE IF one.value.t # "str" THEN [err |-> "ValueError", value |-> Null]
                 ELSE one

\* the slice [:2]
SliceTwo(chars) == SubSeq(chars, 1, Min(2, Len(chars)))

\* the slice [:3]
SliceThree(chars) == SubSeq(chars, 1, Min(3, Len(chars)))

\* the dict of ct_record_type, with its default
TypeTable(prefix) ==
    CASE prefix = <<"c", "n", "l">> -> "place"
      [] prefix = <<"c", "n", "p">> -> "person"
      [] prefix = <<"c", "n", "i">> -> "printer"
      [] prefix = <<"c", "n", "c">> -> "corporate"
      [] OTHER -> "unspecified"

\* ct_record_type(record): [err, type]
CtRecordType(rec) ==
    LET id == Cid(rec)
    IN  IF id.err # "none" THEN [err |-> id.err, type |-> ""]
        ELSE [err |-> "none", type |-> TypeTable(SliceThree(id.value.s))]

\* ---- the records typed ----

IdStrings == {<<"c", "n", "l", "1">>, <<"c", "n", "p", "0", "0", "1", "2", "3">>,
              <<"c", "n", "i", "1">>, <<"c", "n", "c", "1">>, <<"c", "n", "p">>,
              <<"x", "y", "z", "1">>, <<"c", "n">>, <<"c", "n", "x", "1">>}

IdValues ==
    {Str(c) : c \in IdStrings}
    \cup {StrEmpty, Zero, IntNode(<<"7">>), Null, EmptyList,
          List(<<Str(<<"c", "n", "p", "1">>)>>),
          Dict(<< <<KeyA, Str(<<"c", "n", "p", "1">>)>> >>)}

IdDicts ==
    {Dict(<< <<IdPath, v>> >>) : v \in IdValues}
    \cup {EmptyDict, Dict(<< <<KeyA, Str(<<"c", "n", "p", "1">>)>> >>)}

\* members of the lists typed: dicts with and without an identifier, a scalar
IdMembers ==
    {Dict(<< <<IdPath, Str(<<"c", "n", "p", "1">>)>> >>),
     Dict(<< <<IdPath, Str(<<"c", "n", "l", "1">>)>> >>),
     Dict(<< <<IdPath, StrEmpty>> >>),
     EmptyDict,
     Str(<<"c", "n", "p", "1">>)}

TypedRecords == IdDicts \cup {List(l) : l \in SeqsUpTo(IdMembers, MaxLen)}

NoTypeResult == [state |-> "pending", err |-> "none", value |-> Null, type |-> ""]

TypeIdle == trecord = Null /\ tcall = "idle" /\ tresult = NoTypeResult

TypeInit ==
    /\ trecord \in TypedRecords
    /\ tcall \in {"cid", "ct_record_type"}
    /\ tresult = NoTypeResult

\* a call of cid(record)
CallCid ==
    /\ tcall = "cid"
    /\ tresult.state = "pending"
    /\ tresult' = [state |-> "done", err |-> Cid(trecord).err,
                   value |-> Cid(trecord).value, type |-> ""]
    /\ UNCHANGED <<trecord, tcall, qvars, xvars, rvars>>

\* a call of ct_record_type(record)
CallCtRecordType ==
    /\ tcall = "ct_record_type"
    /\ tresult.state = "pending"
    /\ tresult' = [state |-> "done", err |-> CtRecordType(trecord).err,
                   value |-> Null, type |-> CtRecordType(trecord).type]
    /\ UNCHANGED <<trecord, tcall, qvars, xvars, rvars>>

TypeNext == CallCid \/ CallCtRecordType

---------------------------------------------------------------------------
(* Claims about the record field helpers (SpecType) *)

\* the values found under _id
IdMatches == ByDot(trecord, IdPath)

\* the identifier lookup succeeds: exactly one match, and it is a string
LookupSucceeds ==
    /\ IdMatches.kind = "list"
    /\ Len(IdMatches.vals) = 1
    /\ IdMatches.vals[1].t = "str"

\* the type the first 3 characters of an identifier stand for
TypeOfIdentifier(chars) ==
    IF Len(chars) >= 3 /\ <<chars[1], chars[2]>> = <<"c", "n">>
                       /\ chars[3] \in {"l", "p", "i", "c"}
    THEN CASE chars[3] = "l" -> "place"
           [] chars[3] = "p" -> "person"
           [] chars[3] = "i" -> "printer"
           [] chars[3] = "c" -> "corporate"
    ELSE "unspecified"

TypeReturned == tcall = "ct_record_type" /\ tresult.state = "done"

\* C8 as stated: inferredTypeOf returns the type of the identifier's prefix,
\* and "unspecified" in every other case, also when the identifier lookup
\* fails; it never signals an error.
C8_NeverFails ==
    TypeReturned =>
       /\ tresult.err = "none"
       /\ tresult.type = IF LookupSucceeds
                         THEN TypeOfIdentifier(IdMatches.vals[1].s)
                         ELSE "unspecified"

\* C8 as amended: inferredTypeOf returns the type of the identifier's prefix,
\* and "unspecified" for any other prefix, when the identifier lookup
\* succeeds; when the lookup fails (no _id, a falsy _id, several matches, a
\* non-string _id) it returns no type and the lookup's error reaches the
\* caller.
C8_TypeOrError ==
    TypeReturned =>
       IF LookupSucceeds
       THEN /\ tresult.err = "none"
            /\ tresult.type = TypeOfIdentifier(IdMatches.vals[1].s)
       ELSE /\ tresult.err \in {"ValueError", "TypeError"}
            /\ tresult.type = ""

\* the record {"_id": "cnp00123"} is a person
C8_Witness ==
    /\ TypeReturned
    /\ trecord = Dict(<< <<IdPath, Str(<<"c", "n", "p", "0", "0", "1", "2", "3">>)>> >>)
    /\ tresult.err = "none"
    /\ tresult.type = "person"

\* a record without _id: the ValueError of the lookup
C8_WitnessNoId ==
    /\ TypeReturned
    /\ trecord = EmptyDict
    /\ tresult.err = "ValueError"


---------------------------------------------------------------------------
(* Specifications *)

InitQuery == QueryInit /\ ExportIdle /\ ResolveIdle /\ TypeIdle

SpecQuery == InitQuery /\ [][QueryNext]_vars

InitExport == QueryIdle /\ ExportInit /\ ResolveIdle /\ TypeIdle

SpecExport == InitExport /\ [][ExportNext]_vars

InitResolve == QueryIdle /\ ExportIdle /\ ResolveInit /\ TypeIdle

SpecResolve == InitResolve /\ [][ResolveNext]_vars

InitType == QueryIdle /\ ExportIdle /\ ResolveIdle /\ TypeInit

SpecType == InitType /\ [][TypeNext]_vars

====
